---- MODULE Spec2Model ----
(***************************************************************************)
(* A model of unittest-git-secrets.py: the command-line entry point, the   *)
(* unittest fixture life cycle of Test_01_GitPreCommitHook and the helper  *)
(* class TestAwsPatterns.  External collaborators (git, git-secrets, the   *)
(* file system, the interpreter version, the random module) are inputs:    *)
(* every action draws their answers from small sets.                       *)
(***************************************************************************)
EXTENDS Integers, Sequences, FiniteSets, TLC

\* ------------------------------------------------------------------ bounds

\* Number of consecutive invocations of the script that are explored.
MaxRuns == 2
\* A stride sequence of draws starts at a value in 0..MaxSeed ...
MaxSeed == 1
\* ... and moves by a stride in 0..MaxStep at each draw.
MaxStep == 1
\* The generators called on their own: explored while the random module has
\* delivered at most this many draws.
MaxDraws == 96
\* The repository methods called on their own: explored while fewer than
\* this many external operations have been attempted.
MaxToolCalls == 3

\* --------------------------------------------------------------- constants

SecretKeyLen == 40
AccessKeyLen == 16

\* Exit codes an external command may return: success, a generic failure
\* (a hook that blocks, nothing to commit), git's fatal error.
ExitCodes == {0, 1, 128}

\* Command lines the script may be started with; every argument is the
\* sequence of its characters.
ArgvChoices ==
  { <<>>,
    << <<"-","d">> >>,
    << <<"-","-","d","e","b","u","g">> >>,
    << <<"-","-","d","e","b">> >>,
    << <<"-","d","d">> >>,
    << <<"-","h">> >>,
    << <<"-","-","h","e","l","p">> >>,
    << <<"-","d","h">> >>,
    << <<"-","d","x">> >>,
    << <<"-","-","b","o","g","u","s">> >>,
    << <<"-","d">>, <<"-","-","b","o","g","u","s">> >>,
    << <<"-","-","b","o","g","u","s">>, <<"-","h">> >>,
    << <<"-","d">>, <<"-","-">> >>,
    << <<"-","-","d","e","b","u","g","=","1">>, <<"-","h">> >>,
    << <<"-","h">>, <<"-","-","=">> >>,
    << <<"-","d","=","d">> >>,
    << <<"x">> >> }

\* Outcomes of reading .git/config back in debug mode.
ReadChoices == {"ok", "open_fails", "decode_fails"}

\* Answers of shutil.which + os.access for 'git-secrets'.
WhichChoices == {"found", "missing", "not_executable"}

ascii_uppercase ==
  <<"A","B","C","D","E","F","G","H","I","J","K","L","M",
    "N","O","P","Q","R","S","T","U","V","W","X","Y","Z">>
ascii_lowercase ==
  <<"a","b","c","d","e","f","g","h","i","j","k","l","m",
    "n","o","p","q","r","s","t","u","v","w","x","y","z">>
digits == <<"0","1","2","3","4","5","6","7","8","9">>

\* ------------------------------------------------------------------- state

VARIABLES
  pc,          \* position of the process: main, load, setUp, test, tearDown, finish, exited
  run,         \* number of the current invocation (also names its temp directory)
  exitStatus,  \* process exit status, -1 while the process is running
  DEBUG,       \* Test_01_GitPreCommitHook.DEBUG (class attribute)
  logLevel,    \* threshold of the root logger (WARNING until basicConfig runs)
  rng,         \* number of draws the random module has delivered in this process
  key,         \* the credential generated last (<<>> when none)
  keyShape,    \* which generator produced key: none, secret, access
  tmpdirs,     \* temp directories that exist on disk (by run number)
  fixture,     \* content of this run's repo_path: [gitDir, config, payload]
  cwd,         \* process working directory: 0 = the start directory, n = run n's temp dir
  hookReturned,\* trigger_hook has returned in this run
  marker,      \* the value trigger_hook returned (the Trigger Outcome)
  result,      \* what the runner recorded for the test: none, ok, failure, error
  exc,         \* last exception that left a method: [type, via]
  log,         \* records written to stderr by logging in this run
  calls,       \* external operations attempted in this run, with their outcome
  happySoFar   \* history: every invocation completed so far took the happy path

vars == <<pc, run, exitStatus, DEBUG, logLevel, rng, key, keyShape, tmpdirs, fixture,
          cwd, hookReturned, marker, result, exc, log, calls, happySoFar>>

\* ----------------------------------------------------------------- logging

LevelNo(level) ==
  CASE level = "DEBUG" -> 10
    [] level = "INFO"  -> 20
    [] level = "ERROR" -> 40
    [] OTHER           -> 30

\* logging.<level>(msg): the record reaches stderr when the level passes
\* the threshold installed by logging.basicConfig in main().
Emit(threshold, level, msg) ==
  IF LevelNo(level) >= LevelNo(threshold)
    THEN <<[level |-> level, msg |-> msg]>>
    ELSE <<>>

Call(op, rc) == [op |-> op, rc |-> rc]

NoExc == [type |-> "none", via |-> "none"]

EmptyFixture == [gitDir |-> FALSE, config |-> <<>>, payload |-> <<>>]

\* ------------------------------------------------------- the random module

\* random.choice(seq) is seq[randbelow(len(seq))].  The values randbelow
\* delivers during one call of a generator are an input of that call: draws
\* is their sequence, each one in 0..len(seq)-1, and RandomChoice is the
\* i-th choice of the call.
RandomChoice(draws, i, seq) == seq[draws[i] + 1]

\* Sequences of k draws below n that start at a value and move by a stride.
StrideDraws(n, k) ==
  { [i \in 1..k |-> (x + (i - 1) * st) % n] : x \in 0..MaxSeed, st \in 0..MaxStep }

\* Draws below 65 recorded from the interpreter: the first 40 after
\* random.seed(s) for s = 0..4, then the 40 that follow the first 40 after
\* random.seed(0).
RecordedSecretDraws ==
  { <<49, 53, 5, 33, 62, 51, 38, 61, 45, 27, 64, 17, 36, 17, 12, 32, 18, 39, 12, 9,
      42, 60, 12, 45, 55, 40, 26, 61, 56, 33, 7, 1, 11, 51, 0, 63, 42, 31, 41, 8>>,
    <<17, 8, 32, 15, 63, 57, 60, 48, 26, 12, 62, 3, 49, 55, 0, 57, 34, 29, 13, 40,
      3, 2, 3, 1, 48, 27, 54, 3, 28, 56, 63, 29, 44, 29, 28, 58, 37, 2, 53, 12>>,
    <<7, 11, 10, 46, 21, 39, 32, 27, 4, 20, 55, 50, 47, 56, 64, 34, 4, 3, 46, 59,
      40, 48, 54, 21, 22, 30, 29, 3, 22, 41, 22, 17, 46, 23, 57, 53, 46, 45, 46, 57>>,
    <<30, 16, 47, 60, 8, 1, 60, 33, 29, 24, 60, 60, 50, 19, 29, 19, 49, 1, 8, 20,
      5, 38, 3, 34, 60, 49, 54, 50, 56, 17, 46, 12, 4, 17, 63, 27, 33, 55, 38, 53>>,
    <<30, 38, 13, 50, 61, 19, 11, 8, 2, 51, 37, 7, 28, 46, 35, 22, 13, 33, 27, 3,
      33, 34, 24, 21, 39, 37, 47, 11, 43, 49, 64, 31, 22, 31, 60, 35, 11, 38, 0, 37>>,
    <<24, 28, 30, 18, 57, 11, 10, 40, 62, 13, 38, 37, 15, 42, 26, 36, 56, 11, 49, 40,
      30, 37, 23, 24, 23, 4, 33, 60, 8, 11, 16, 19, 4, 10, 50, 35, 30, 27, 53, 35>> }

\* Draws below 36 recorded from the interpreter: the first 16 after
\* random.seed(s) for s = 0..4.
RecordedAccessDraws ==
  { <<24, 26, 2, 16, 32, 31, 25, 19, 30, 22, 13, 32, 8, 18, 8, 6>>,
    <<8, 4, 16, 7, 31, 28, 30, 24, 13, 6, 31, 1, 24, 27, 0, 28>>,
    <<3, 5, 5, 23, 10, 19, 16, 13, 2, 10, 27, 25, 32, 23, 34, 28>>,
    <<15, 34, 8, 23, 30, 4, 0, 30, 16, 35, 14, 12, 30, 34, 35, 30>>,
    <<15, 19, 6, 25, 30, 9, 5, 4, 1, 25, 35, 18, 3, 14, 33, 34>> }

\* The draws explored for one call of each generator.  random.choice can
\* deliver any sequence over the alphabet; these sets are a sample of them.
SecretDraws == StrideDraws(65, SecretKeyLen) \cup RecordedSecretDraws
AccessDraws == StrideDraws(36, AccessKeyLen) \cup RecordedAccessDraws

\* ------------------------------------------------- class TestAwsPatterns

\* Variant: one choice too few (range(39)).
generate_random_aws_secret_key_short(draws) ==
  LET chars == ascii_uppercase \o ascii_lowercase \o digits \o <<"/">> \o <<"+">> \o <<"=">>
  IN  [i \in 1..(SecretKeyLen - 1) |-> RandomChoice(draws, i, chars)]

\* generate_random_aws_secret_key(): 40 choices from the 65-character alphabet.
generate_random_aws_secret_key(draws) ==
  LET chars == ascii_uppercase \o ascii_lowercase \o digits \o <<"/">> \o <<"+">> \o <<"=">>
  IN  [i \in 1..SecretKeyLen |-> RandomChoice(draws, i, chars)]

\* generate_random_aws_access_key(): 'AKIA' followed by 16 choices from A-Z0-9.
generate_random_aws_access_key(draws) ==
  LET chars == ascii_uppercase \o digits
  IN  <<"A", "K", "I", "A">> \o [i \in 1..AccessKeyLen |-> RandomChoice(draws, i, chars)]

\* which_git_secrets(): exit(1) (a SystemExit) unless the tool is found and
\* executable.  found is the answer of shutil.which and os.access.
which_git_secrets(found, threshold) ==
  CASE found = "missing" ->
         [raised |-> "SystemExit",
          log    |-> Emit(threshold, "ERROR", "git-secrets is not found in the path!"),
          calls  |-> <<Call("which git-secrets", 1)>>]
    [] found = "not_executable" ->
         [raised |-> "SystemExit",
          log    |-> Emit(threshold, "ERROR", "git-secrets is not executable!"),
          calls  |-> <<Call("which git-secrets", 0), Call("access X_OK", 1)>>]
    [] OTHER ->
         [raised |-> "none",
          log    |-> <<>>,
          calls  |-> <<Call("which git-secrets", 0), Call("access X_OK", 0)>>]

\* The text disable_gpgsign appends to .git/config.
gpgsign_config_string == "[commit]\n\tgpgsign = false"

\* disable_gpgsign(path): open .git/config for appending and write the stanza.
\* The open is not guarded: when it fails the OSError leaves the method.
disable_gpgsign(config, appendOk) ==
  IF appendOk
    THEN [raised |-> "none",    config |-> Append(config, gpgsign_config_string),
          calls  |-> <<Call("open .git/config a", 0)>>]
    ELSE [raised |-> "OSError", config |-> config,
          calls  |-> <<Call("open .git/config a", 1)>>]

\* create_repo(path).  fx: what path holds before the call (fx.gitDir is
\* os.path.isdir(path/.git)); initRc: exit code of 'git init'; initUtf8:
\* whether what it printed is valid UTF-8; appendOk: whether .git/config can
\* be opened for appending; readRes: how reading it back goes; debug:
\* self.debug.  'git init' on an existing repository keeps its config, so a
\* second call appends the stanza again.  The output is decoded on both
\* branches (before logging.debug looks at the level, and inside the except
\* block), so output that is not UTF-8 leaves the method as a
\* UnicodeDecodeError.
\* ret is "None" (fell off the end), "False", or "raised".
create_repo(fx, initRc, initUtf8, appendOk, readRes, debug, threshold) ==
  LET pre  == (IF fx.gitDir
                 THEN Emit(threshold, "ERROR", "Git directory already exists! Exiting...")
                 ELSE <<>>)
              \o Emit(threshold, "DEBUG", "Running command: git init")
      base == IF fx.gitDir THEN fx.config ELSE <<"[core]">>
      gpg  == disable_gpgsign(base, appendOk)
      init == <<Call("git init", initRc)>>
      bare == [fx EXCEPT !.gitDir = TRUE, !.config = base]
      made == [fx EXCEPT !.gitDir = TRUE, !.config = gpg.config]
  IN  IF initRc # 0 /\ ~initUtf8
        THEN \* except subprocess.CalledProcessError, cpe.output.decode raises
             [ret |-> "raised", raised |-> "UnicodeDecodeError",
              log |-> pre \o Emit(threshold, "ERROR", "Command 'git init' return code"),
              calls |-> init,
              fixture |-> fx]
        ELSE IF initRc # 0
          THEN \* except subprocess.CalledProcessError
               [ret |-> "False", raised |-> "none",
                log |-> pre \o Emit(threshold, "ERROR", "Command 'git init' return code")
                            \o Emit(threshold, "ERROR", "Command output"),
                calls |-> init,
                fixture |-> fx]
        ELSE IF ~initUtf8
          THEN \* output.decode raises before disable_gpgsign is called
               [ret |-> "raised", raised |-> "UnicodeDecodeError",
                log |-> pre,
                calls |-> init,
                fixture |-> bare]
        ELSE IF gpg.raised # "none"
          THEN [ret |-> "raised", raised |-> gpg.raised,
                log |-> pre \o Emit(threshold, "DEBUG", "git init output"),
                calls |-> init \o gpg.calls,
                fixture |-> made]
        ELSE IF debug /\ readRes = "open_fails"
          THEN [ret |-> "raised", raised |-> "OSError",
                log |-> pre \o Emit(threshold, "DEBUG", "git init output"),
                calls |-> init \o gpg.calls \o <<Call("open .git/config r", 1)>>,
                fixture |-> made]
        ELSE IF debug /\ readRes = "decode_fails"
          THEN [ret |-> "raised", raised |-> "UnicodeDecodeError",
                log |-> pre \o Emit(threshold, "DEBUG", "git init output"),
                calls |-> init \o gpg.calls \o <<Call("open .git/config r", 0),
                                                 Call("read .git/config", 1)>>,
                fixture |-> made]
        ELSE [ret |-> "None", raised |-> "none",
              log |-> pre \o Emit(threshold, "DEBUG", "git init output")
                          \o (IF debug
                                THEN Emit(threshold, "DEBUG", ".git/config file contents")
                                ELSE <<>>),
              calls |-> init \o gpg.calls
                             \o (IF debug THEN <<Call("open .git/config r", 0),
                                                  Call("read .git/config", 0)>>
                                           ELSE <<>>),
              fixture |-> made]

\* Variant: a failed 'git add' decides the result (the commit result is
\* kept only when staging succeeded).
trigger_hook_staging_decides(addRc, addUtf8, commitRc, commitUtf8, threshold) ==
  [marker |-> (addRc = 0 /\ commitRc = 0),
   raised |-> "none",
   log    |-> Emit(threshold, "DEBUG", "Running command: git add")
              \o (IF addRc # 0
                    THEN Emit(threshold, "ERROR", "Could not run command 'git add'")
                    ELSE <<>>)
              \o Emit(threshold, "DEBUG", "Running command: git commit")
              \o (IF commitRc # 0
                    THEN Emit(threshold, "INFO", "Command 'git commit' return code")
                         \o Emit(threshold, "INFO", "Command output")
                    ELSE <<>>),
   calls  |-> <<Call("git add", addRc), Call("git commit", commitRc)>>]

\* trigger_hook(f): 'git add f' (a failure is logged and dropped), then
\* 'git commit'; marker is True exactly when the commit exits zero.
\* addUtf8, commitUtf8: whether what the command printed is valid UTF-8.
\* The output of a failed command is decoded inside the except block, so
\* output that is not UTF-8 leaves the method as a UnicodeDecodeError: after
\* a failed 'git add' before the commit is attempted, after a failed
\* 'git commit' before a value is returned.
trigger_hook(addRc, addUtf8, commitRc, commitUtf8, threshold) ==
  IF addRc # 0 /\ ~addUtf8
    THEN [marker |-> FALSE,
          raised |-> "UnicodeDecodeError",
          log    |-> Emit(threshold, "DEBUG", "Running command: git add"),
          calls  |-> <<Call("git add", addRc)>>]
    ELSE LET staged == Emit(threshold, "DEBUG", "Running command: git add")
                       \o (IF addRc # 0
                             THEN Emit(threshold, "ERROR", "Could not run command 'git add'")
                             ELSE <<>>)
                       \o Emit(threshold, "DEBUG", "Running command: git commit")
         IN  IF commitRc # 0 /\ ~commitUtf8
               THEN [marker |-> FALSE,
                     raised |-> "UnicodeDecodeError",
                     log    |-> staged
                                \o Emit(threshold, "INFO", "Command 'git commit' return code"),
                     calls  |-> <<Call("git add", addRc), Call("git commit", commitRc)>>]
               ELSE [marker |-> (commitRc = 0),
                     raised |-> "none",
                     log    |-> staged
                                \o (IF commitRc # 0
                                      THEN Emit(threshold, "INFO", "Command 'git commit' return code")
                                           \o Emit(threshold, "INFO", "Command output")
                                      ELSE <<>>),
                     calls  |-> <<Call("git add", addRc), Call("git commit", commitRc)>>]

\* What shutil.rmtree may leave of the content fx when it fails part-way: it
\* raises at the first entry it cannot remove and keeps what it already
\* deleted.
PartialRemovals(fx) ==
  { [gitDir |-> g, config |-> c, payload |-> p] :
      g \in {fx.gitDir, FALSE}, c \in {fx.config, <<>>}, p \in {fx.payload, <<>>} }
  \ { f \in [gitDir : {FALSE}, config : {fx.config}, payload : {fx.payload, <<>>}] :
        f.config # <<>> }

\* The ways shutil.rmtree may fail on a path that holds fx: part-way
\* (exists, with what is left), or because the path is no longer there
\* (FileNotFoundError: nothing is left on disk).
RemovalFailures(fx) ==
  { [exists |-> TRUE, content |-> c] : c \in PartialRemovals(fx) }
  \cup { [exists |-> FALSE, content |-> EmptyFixture] }

\* Variant: rmtree outside any try block, so its exception leaves the method.
remove_repo_unguarded(rmOk, left, threshold) ==
  IF rmOk
    THEN [ret |-> "None",   removed |-> TRUE,  raised |-> "none", log |-> <<>>,
          calls |-> <<Call("rmtree", 0)>>, fixture |-> EmptyFixture]
    ELSE [ret |-> "raised", removed |-> ~left.exists, raised |-> "OSError", log |-> <<>>,
          calls |-> <<Call("rmtree", 1)>>, fixture |-> left.content]

\* remove_repo(path): shutil.rmtree; any Exception is logged and turned
\* into the return value False.  left: how a failing rmtree leaves path;
\* removed: path is not on disk after the call.
remove_repo(rmOk, left, threshold) ==
  IF rmOk
    THEN [ret |-> "None",  removed |-> TRUE,  raised |-> "none", log |-> <<>>,
          calls |-> <<Call("rmtree", 0)>>, fixture |-> EmptyFixture]
    ELSE [ret |-> "False", removed |-> ~left.exists, raised |-> "none",
          log |-> Emit(threshold, "ERROR", "Cannot remove directory"),
          calls |-> <<Call("rmtree", 1)>>, fixture |-> left.content]

\* scan_git_secrets(path): 'git-secrets --scan path'; a non-zero exit is
\* logged at INFO level and returns False.  scanUtf8: whether what the tool
\* printed is valid UTF-8; the output is decoded on both branches.  No test
\* of the script calls it.
scan_git_secrets(scanRc, scanUtf8, threshold) ==
  LET running == Emit(threshold, "DEBUG", "Running command: git-secrets --scan")
      scan    == <<Call("git-secrets --scan", scanRc)>>
  IN  IF scanRc # 0 /\ ~scanUtf8
        THEN [ret |-> "raised", raised |-> "UnicodeDecodeError",
              log |-> running
                      \o Emit(threshold, "INFO", "Command 'git-secrets --scan' return code"),
              calls |-> scan]
        ELSE IF scanRc # 0
          THEN [ret |-> "False", raised |-> "none",
                log |-> running
                        \o Emit(threshold, "INFO", "Command 'git-secrets --scan' return code")
                        \o Emit(threshold, "INFO", "Command output"),
                calls |-> scan]
        ELSE IF ~scanUtf8
          THEN [ret |-> "raised", raised |-> "UnicodeDecodeError",
                log |-> running,
                calls |-> scan]
        ELSE [ret |-> "None", raised |-> "none",
              log |-> running \o Emit(threshold, "DEBUG", "scan output"),
              calls |-> scan]

\* ------------------------------------------------------------ entry point

\* argparse, one argument (a sequence of characters) at a time.
IsPrefix(a, b) == Len(a) <= Len(b) /\ \A i \in 1..Len(a) : a[i] = b[i]

\* The option strings of the parser built in parse_args(): -d/--debug is
\* added by the script, -h/--help by argparse.
OptionStrings ==
  [debug |-> {<<"-","d">>, <<"-","-","d","e","b","u","g">>},
   help  |-> {<<"-","h">>, <<"-","-","h","e","l","p">>}]

\* How argparse reads one argument that stands before any '--'
\* (_parse_optional): which option it names, and the explicit argument
\* attached to it (after '=', or the rest of a single-dash cluster).
\*   kind: "debug", "help", "ambiguous" (a prefix of both long options) or
\*         "extra" (not an option of this parser);
\*   given/explicit: an explicit argument is attached, and its characters;
\*   long: the option was named by its long form.
ParseOptional(a) ==
  LET eq    == IF \E i \in 1..Len(a) : a[i] = "="
                 THEN CHOOSE i \in 1..Len(a) :
                        a[i] = "=" /\ \A j \in 1..(i - 1) : a[j] # "="
                 ELSE 0
      head  == IF eq > 0 THEN SubSeq(a, 1, eq - 1) ELSE a
      tail  == IF eq > 0 THEN SubSeq(a, eq + 1, Len(a)) ELSE <<>>
      all   == OptionStrings.debug \cup OptionStrings.help
      Name(o) == IF o \in OptionStrings.debug THEN "debug" ELSE "help"
      Opt(k, g, e, l) == [kind |-> k, given |-> g, explicit |-> e, long |-> l]
      match == {o \in all : Len(o) > 2 /\ IsPrefix(head, o)}
  IN  IF Len(a) < 2 \/ a[1] # "-"
        THEN Opt("extra", FALSE, <<>>, FALSE)
      ELSE IF a \in all
        THEN Opt(Name(a), FALSE, <<>>, a[2] = "-")
      ELSE IF eq > 0 /\ head \in all
        THEN Opt(Name(head), TRUE, tail, head[2] = "-")
      ELSE IF a[2] = "-"
        THEN IF Cardinality(match) > 1
               THEN Opt("ambiguous", FALSE, <<>>, TRUE)
             ELSE IF Cardinality(match) = 1
               THEN Opt(Name(CHOOSE o \in match : TRUE), eq > 0, tail, TRUE)
             ELSE Opt("extra", FALSE, <<>>, FALSE)
      ELSE IF SubSeq(a, 1, 2) \in all
        THEN Opt(Name(SubSeq(a, 1, 2)), TRUE, SubSeq(a, 3, Len(a)), FALSE)
      ELSE Opt("extra", FALSE, <<>>, FALSE)

\* What one argument is to the parser:
\*   "separator"  --
\*   "ambiguous"  a prefix of both --debug and --help (SystemExit 2, raised
\*                while the arguments are classified, before any is acted on)
\*   "error"      an option with an explicit argument it cannot take: a long
\*                option followed by '=', a single-dash cluster that holds a
\*                character other than d and h (SystemExit 2 when reached)
\*   "help"       -h, a prefix of --help, a cluster of d's and h's with an h
\*   "debug"      -d, a prefix of --debug, a cluster of d's
\*   "extra"      anything else: kept aside, rejected when parsing ends
ArgKind(a) ==
  LET o       == ParseOptional(a)
      letters == {o.explicit[i] : i \in 1..Len(o.explicit)}
  IN  IF a = <<"-", "-">> THEN "separator"
      ELSE IF o.kind \in {"extra", "ambiguous"} THEN o.kind
      ELSE IF ~o.given THEN o.kind
      ELSE IF o.long \/ o.explicit = <<>> \/ ~(letters \subseteq {"d", "h"}) THEN "error"
      ELSE IF o.kind = "help" \/ "h" \in letters THEN "help"
      ELSE "debug"

\* The parser's run over argv[i..]: sep: a separator was passed (what
\* follows is positional); debug: the flag so far; extras: something was
\* kept aside.  argparse: 0 after help, 2 after an error, -1 when
\* parse_args() of argparse returned the options.
RECURSIVE ArgparseFrom(_, _, _, _, _)
ArgparseFrom(argv, i, sep, debug, extras) ==
  IF i > Len(argv)
    THEN IF extras THEN [argparse |-> 2, debug |-> FALSE]
                   ELSE [argparse |-> -1, debug |-> debug]
    ELSE LET k == IF sep THEN "extra" ELSE ArgKind(argv[i])
         IN  CASE k = "help"      -> [argparse |-> 0, debug |-> FALSE]
               [] k = "error"     -> [argparse |-> 2, debug |-> FALSE]
               [] k = "debug"     -> ArgparseFrom(argv, i + 1, sep, TRUE, extras)
               [] k = "separator" -> ArgparseFrom(argv, i + 1, TRUE, debug, TRUE)
               [] OTHER           -> ArgparseFrom(argv, i + 1, sep, debug, TRUE)

\* parse_args(): argparse leaves with SystemExit(0) after printing help and
\* SystemExit(2) on a command line it rejects; the bare except turns either
\* into sys.exit(0).  An ambiguous argument before the first '--' is rejected
\* before anything else is acted on.
parse_args(argv) ==
  LET ambiguous == \E i \in 1..Len(argv) :
                     /\ \A j \in 1..(i - 1) : argv[j] # <<"-", "-">>
                     /\ ArgKind(argv[i]) = "ambiguous"
      a == IF ambiguous THEN [argparse |-> 2, debug |-> FALSE]
                        ELSE ArgparseFrom(argv, 1, FALSE, FALSE, FALSE)
  IN  IF a.argparse >= 0
        THEN [exit |-> TRUE, argparse |-> a.argparse, status |-> 0, debug |-> FALSE]
        ELSE [exit |-> FALSE, argparse |-> 0, status |-> 0, debug |-> a.debug]

\* The exit status unittest.main() ends the process with:
\* sys.exit(not result.wasSuccessful()).
RunnerExitStatus(res) == IF res = "ok" THEN 0 ELSE 1

\* The happy path of one invocation, read off the operations it attempted:
\* scanner present and executable, init succeeded, the commit was refused,
\* the directory was removed.
HappyRun(cs) ==
  /\ \E i \in 1..Len(cs) : cs[i] = Call("access X_OK", 0)
  /\ \E i \in 1..Len(cs) : cs[i] = Call("git init", 0)
  /\ \E i \in 1..Len(cs) : cs[i].op = "git commit" /\ cs[i].rc # 0
  /\ \E i \in 1..Len(cs) : cs[i] = Call("rmtree", 0)

\* main(): the version check, parse_args, logging.basicConfig.  The call of
\* unittest.main() that ends main() is the steps Load .. Finish below.
Main(versionOk, argv) ==
  /\ pc = "main"
  /\ LET a == parse_args(argv)
     IN  IF ~versionOk
           THEN /\ pc' = "exited"
                /\ exitStatus' = 1
                /\ happySoFar' = FALSE
                /\ UNCHANGED <<DEBUG, logLevel>>
           ELSE IF a.exit
             THEN /\ pc' = "exited"
                  /\ exitStatus' = a.status
                  /\ happySoFar' = FALSE
                  /\ UNCHANGED <<DEBUG, logLevel>>
             ELSE /\ pc' = "load"
                  /\ DEBUG' = a.debug
                  /\ logLevel' = IF a.debug THEN "DEBUG" ELSE "INFO"
                  /\ UNCHANGED <<exitStatus, happySoFar>>
  /\ calls' = calls \o <<Call("version >= 3.4", IF versionOk THEN 0 ELSE 1)>>
                    \o (IF versionOk THEN <<Call("argparse", parse_args(argv).argparse)>>
                                     ELSE <<>>)
  /\ UNCHANGED <<run, rng, key, keyShape, tmpdirs, fixture, cwd, hookReturned, marker, result, exc, log>>

\* Test_01_GitPreCommitHook.__init__, run when unittest.main() loads the
\* tests: tempfile.mkdtemp() creates the directory before any test method runs.
Load ==
  /\ pc = "load"
  /\ pc' = "setUp"
  /\ tmpdirs' = tmpdirs \cup {run}
  /\ fixture' = EmptyFixture
  /\ calls' = Append(calls, Call("mkdtemp", 0))
  /\ UNCHANGED <<run, exitStatus, DEBUG, logLevel, rng, key, keyShape, cwd,
                 hookReturned, marker, result, exc, log, happySoFar>>

\* setUp().  An exception that leaves setUp is recorded by the runner as an
\* error of the test; the test method and tearDown are then not run.
SetUp(found, initRc, initUtf8, appendOk, readRes, draws, writeOk) ==
  /\ pc = "setUp"
  /\ LET w   == which_git_secrets(found, logLevel)
         cr  == create_repo(fixture, initRc, initUtf8, appendOk, readRes, DEBUG, logLevel)
         k   == generate_random_aws_secret_key(draws)
     IN  IF w.raised # "none"
           THEN /\ pc' = "finish"
                /\ result' = "error"
                /\ exc' = [type |-> w.raised, via |-> "which_git_secrets"]
                /\ log' = log \o w.log
                /\ calls' = calls \o w.calls
                /\ UNCHANGED <<fixture, rng, key, keyShape>>
           ELSE IF cr.raised # "none"
             THEN /\ pc' = "finish"
                  /\ result' = "error"
                  /\ exc' = [type |-> cr.raised, via |-> "create_repo"]
                  /\ log' = log \o w.log \o cr.log
                  /\ calls' = calls \o w.calls \o cr.calls
                  /\ fixture' = cr.fixture
                  /\ UNCHANGED <<rng, key, keyShape>>
             ELSE IF cr.ret = "False"
               THEN /\ pc' = "test"
                    /\ log' = log \o w.log \o cr.log
                    /\ calls' = calls \o w.calls \o cr.calls
                    /\ fixture' = cr.fixture
                    /\ UNCHANGED <<result, exc, rng, key, keyShape>>
               ELSE \* the key is generated, then test.txt is opened for writing
                    /\ log' = log \o w.log \o cr.log
                    /\ calls' = calls \o w.calls \o cr.calls
                                      \o <<Call("write test.txt", IF writeOk THEN 0 ELSE 1)>>
                    /\ key' = k
                    /\ keyShape' = "secret"
                    /\ rng' = rng + SecretKeyLen
                    /\ IF writeOk
                         THEN /\ pc' = "test"
                              /\ fixture' = [cr.fixture EXCEPT
                                     !.payload = <<"aws_secret_access_key = ">> \o k]
                              /\ UNCHANGED <<result, exc>>
                         ELSE /\ pc' = "finish"
                              /\ result' = "error"
                              /\ exc' = [type |-> "OSError", via |-> "setUp"]
                              /\ fixture' = cr.fixture
  /\ UNCHANGED <<run, exitStatus, DEBUG, logLevel, tmpdirs, cwd, hookReturned, marker,
                 happySoFar>>

\* Variant: the assertion inverted (assertTrue).
assertFalse_inverted(x) == IF x THEN "none" ELSE "AssertionError"

\* assertFalse(x) raises AssertionError unless x is false.
assertFalse(x) == IF x THEN "AssertionError" ELSE "none"

\* test_git_pre_commit_hook(): chdir into the fixture, trigger the hook,
\* assert, chdir back.  The chdir back follows the assertion in the same
\* block, so it is skipped when the assertion raises, and when trigger_hook
\* raises (the runner then records an error and no value was returned).
Test(chdirOk, addRc, addUtf8, commitRc, commitUtf8, backOk) ==
  /\ pc = "test"
  /\ LET into   == Emit(logLevel, IF chdirOk THEN "DEBUG" ELSE "ERROR",
                        IF chdirOk THEN "Changed directory to repo_path"
                                   ELSE "Error: could not change directory to repo_path")
         h      == trigger_hook(addRc, addUtf8, commitRc, commitUtf8, logLevel)
         raised == assertFalse(h.marker)
         back   == Emit(logLevel, IF backOk THEN "DEBUG" ELSE "ERROR",
                        IF backOk THEN "Changed directory to saved_path"
                                  ELSE "Error: could not change directory to saved_path")
         inside == IF chdirOk THEN run ELSE cwd
         entry  == <<Call("chdir repo_path", IF chdirOk THEN 0 ELSE 1)>>
     IN  IF h.raised # "none"
           THEN /\ result' = "error"
                /\ exc' = [type |-> h.raised, via |-> "trigger_hook"]
                /\ cwd' = inside
                /\ log' = log \o into \o h.log
                /\ calls' = calls \o entry \o h.calls
                /\ UNCHANGED <<hookReturned, marker>>
           ELSE /\ hookReturned' = TRUE
                /\ marker' = h.marker
                /\ IF raised # "none"
                     THEN /\ result' = "failure"
                          /\ exc' = [type |-> raised, via |-> "test_git_pre_commit_hook"]
                          /\ cwd' = inside
                          /\ log' = log \o into \o h.log
                          /\ calls' = calls \o entry \o h.calls
                     ELSE /\ cwd' = IF backOk THEN cwd ELSE inside
                          /\ log' = log \o into \o h.log \o back
                          /\ calls' = calls \o entry \o h.calls
                                            \o <<Call("chdir saved_path", IF backOk THEN 0 ELSE 1)>>
                          /\ UNCHANGED <<result, exc>>
  /\ pc' = "tearDown"
  /\ UNCHANGED <<run, exitStatus, DEBUG, logLevel, rng, key, keyShape, tmpdirs, fixture,
                 happySoFar>>

\* tearDown(): remove the fixture; a failed removal is logged.  The runner
\* then records the test: success when nothing was raised.
TearDown(rmOk) ==
  /\ pc = "tearDown"
  /\ \E left \in RemovalFailures(fixture) :
     LET r == remove_repo(rmOk, left, logLevel)
     IN  /\ tmpdirs' = IF r.removed THEN tmpdirs \ {run} ELSE tmpdirs
         /\ fixture' = r.fixture
         /\ calls' = calls \o r.calls
         /\ IF r.raised # "none"
              THEN /\ result' = "error"
                   /\ exc' = [type |-> r.raised, via |-> "remove_repo"]
                   /\ log' = log \o r.log
              ELSE /\ result' = IF result = "none" THEN "ok" ELSE result
                   /\ log' = log \o r.log
                              \o (IF r.ret = "False"
                                    THEN Emit(logLevel, "ERROR",
                                              "Error: Cannot remove the directory, you will need to do this manually")
                                    ELSE <<>>)
                   /\ UNCHANGED exc
  /\ pc' = "finish"
  /\ UNCHANGED <<run, exitStatus, DEBUG, logLevel, rng, key, keyShape, cwd,
                 hookReturned, marker, happySoFar>>

\* The end of unittest.main(): the process exits with the runner's status.
Finish ==
  /\ pc = "finish"
  /\ pc' = "exited"
  /\ exitStatus' = RunnerExitStatus(result)
  /\ happySoFar' = (happySoFar /\ HappyRun(calls))
  /\ UNCHANGED <<run, DEBUG, logLevel, rng, key, keyShape, tmpdirs, fixture, cwd,
                 hookReturned, marker, result, exc, log, calls>>

\* The script is started again: a new process, the same disk.
NewRun ==
  /\ pc = "exited"
  /\ run < MaxRuns
  /\ pc' = "main"
  /\ run' = run + 1
  /\ exitStatus' = -1
  /\ DEBUG' = FALSE
  /\ logLevel' = "WARNING"
  /\ rng' = 0
  /\ key' = <<>>
  /\ keyShape' = "none"
  /\ fixture' = EmptyFixture
  /\ cwd' = 0
  /\ hookReturned' = FALSE
  /\ marker' = FALSE
  /\ result' = "none"
  /\ exc' = NoExc
  /\ log' = <<>>
  /\ calls' = <<>>
  /\ UNCHANGED <<tmpdirs, happySoFar>>

Init ==
  /\ pc = "main"
  /\ run = 1
  /\ exitStatus = -1
  /\ DEBUG = FALSE
  /\ logLevel = "WARNING"
  /\ rng = 0
  /\ key = <<>>
  /\ keyShape = "none"
  /\ tmpdirs = {}
  /\ fixture = EmptyFixture
  /\ cwd = 0
  /\ hookReturned = FALSE
  /\ marker = FALSE
  /\ result = "none"
  /\ exc = NoExc
  /\ log = <<>>
  /\ calls = <<>>
  /\ happySoFar = TRUE

Next ==
  \/ \E v \in BOOLEAN, a \in ArgvChoices : Main(v, a)
  \/ Load
  \/ \E f \in WhichChoices, rc \in ExitCodes, ru \in BOOLEAN, ao \in BOOLEAN,
        rr \in ReadChoices, d \in SecretDraws, wo \in BOOLEAN :
       SetUp(f, rc, ru, ao, rr, d, wo)
  \/ \E c \in BOOLEAN, ar \in ExitCodes, au \in BOOLEAN, cr \in ExitCodes,
        cu \in BOOLEAN, b \in BOOLEAN :
       Test(c, ar, au, cr, cu, b)
  \/ \E ok \in BOOLEAN : TearDown(ok)
  \/ Finish
  \/ NewRun

Spec == Init /\ [][Next]_vars

\* ---------------------------- the methods of TestAwsPatterns on their own

\* A caller that builds TestAwsPatterns(debug) under any logging threshold
\* and calls its repository and scanner methods directly, in any order.
InitTools ==
  /\ pc = "main"
  /\ run = 1
  /\ exitStatus = -1
  /\ DEBUG \in BOOLEAN
  /\ logLevel \in {"WARNING", "INFO", "DEBUG"}
  /\ rng = 0
  /\ key = <<>>
  /\ keyShape = "none"
  /\ tmpdirs = {}
  /\ fixture = EmptyFixture
  /\ cwd = 0
  /\ hookReturned = FALSE
  /\ marker = FALSE
  /\ result = "none"
  /\ exc = NoExc
  /\ log = <<>>
  /\ calls = <<>>
  /\ happySoFar = TRUE

\* A call of generate_random_aws_secret_key().
GenSecret(draws) ==
  /\ rng + SecretKeyLen <= MaxDraws
  /\ key' = generate_random_aws_secret_key(draws)
  /\ keyShape' = "secret"
  /\ rng' = rng + SecretKeyLen
  /\ UNCHANGED <<pc, run, exitStatus, DEBUG, logLevel, tmpdirs, fixture, cwd,
                 hookReturned, marker, result, exc, log, calls, happySoFar>>

\* A call of generate_random_aws_access_key().
GenAccess(draws) ==
  /\ rng + AccessKeyLen <= MaxDraws
  /\ key' = generate_random_aws_access_key(draws)
  /\ keyShape' = "access"
  /\ rng' = rng + AccessKeyLen
  /\ UNCHANGED <<pc, run, exitStatus, DEBUG, logLevel, tmpdirs, fixture, cwd,
                 hookReturned, marker, result, exc, log, calls, happySoFar>>

\* A call of scan_git_secrets(path).
ScanGitSecrets(scanRc, scanUtf8) ==
  /\ Len(calls) < MaxToolCalls
  /\ LET sc == scan_git_secrets(scanRc, scanUtf8, logLevel)
     IN  /\ log' = log \o sc.log
         /\ calls' = calls \o sc.calls
         /\ exc' = IF sc.raised # "none"
                     THEN [type |-> sc.raised, via |-> "scan_git_secrets"]
                     ELSE exc
  /\ UNCHANGED <<pc, run, exitStatus, DEBUG, logLevel, rng, key, keyShape, tmpdirs,
                 fixture, cwd, hookReturned, marker, result, happySoFar>>

\* A call of create_repo(path) on the same path, which may already hold a
\* repository from an earlier call.
CreateRepo(initRc, initUtf8, appendOk, readRes) ==
  /\ Len(calls) < MaxToolCalls
  /\ LET cr == create_repo(fixture, initRc, initUtf8, appendOk, readRes, DEBUG, logLevel)
     IN  /\ log' = log \o cr.log
         /\ calls' = calls \o cr.calls
         /\ fixture' = cr.fixture
         /\ exc' = IF cr.raised # "none"
                     THEN [type |-> cr.raised, via |-> "create_repo"]
                     ELSE exc
  /\ UNCHANGED <<pc, run, exitStatus, DEBUG, logLevel, rng, key, keyShape, tmpdirs,
                 cwd, hookReturned, marker, result, happySoFar>>

NextTools ==
  \/ \E rc \in ExitCodes, u \in BOOLEAN : ScanGitSecrets(rc, u)
  \/ \E rc \in ExitCodes, u \in BOOLEAN, ao \in BOOLEAN, rr \in ReadChoices :
       CreateRepo(rc, u, ao, rr)

SpecTools == InitTools /\ [][NextTools]_vars

\* The two generators called any number of times, in any order.
NextKeys ==
  \/ \E d \in SecretDraws : GenSecret(d)
  \/ \E d \in AccessDraws : GenAccess(d)

SpecKeys == Init /\ [][NextKeys]_vars

\* ================================================================ claims

Has(op, rc) == \E i \in 1..Len(calls) : calls[i] = Call(op, rc)
Attempted(op) == \E i \in 1..Len(calls) : calls[i].op = op
Logged(level, msg) == \E i \in 1..Len(log) : log[i] = [level |-> level, msg |-> msg]
BodyOver == pc \in {"tearDown", "finish", "exited"}
Reported == pc \in {"finish", "exited"}
\* The test body was entered in this run.
BodyRan == Attempted("chdir repo_path")
\* argparse printed its help and left (SystemExit(0)) before any test was loaded.
HelpPrinted == Has("argparse", 0) /\ ~Attempted("mkdtemp")

\* C1: whenever the test body ran, the scenario is reported as passed (and
\* the process exits 0) if and only if trigger_hook returned false; a commit
\* that exits zero gives Trigger Outcome true and a failed scenario.
C1_PassedIffOutcomeFalse ==
  /\ (BodyRan /\ Reported) => ((result = "ok") <=> (hookReturned /\ ~marker))
  /\ (BodyRan /\ pc = "exited") => ((exitStatus = 0) <=> (hookReturned /\ ~marker))
  /\ (BodyRan /\ Reported /\ Has("git commit", 0)) =>
       (hookReturned /\ marker /\ result = "failure")

\* C1 witness: the hook is not configured, the commit exits zero, the
\* scenario has been reported as failed.
C1_Witness ==
  /\ pc = "exited" /\ hookReturned /\ Has("git commit", 0)
  /\ marker /\ result = "failure" /\ exitStatus = 1

\* C2: once trigger_hook has been called it returns, true exactly when the
\* commit exits zero, whatever the staging command did: the commit is
\* attempted right after the staging command, and a staging failure is logged
\* and does not change the result.
C2_MarkerIsCommitSuccess ==
  (BodyOver /\ Attempted("git add")) =>
    /\ hookReturned
    /\ \E i \in 1..(Len(calls) - 1) :
         /\ calls[i].op = "git add"
         /\ calls[i + 1].op = "git commit"
         /\ marker = (calls[i + 1].rc = 0)
         /\ (calls[i].rc # 0 => Logged("ERROR", "Could not run command 'git add'"))

\* C3: when the scanner executable is missing or not executable, the process
\* exits non-zero and no temporary directory has been created by the run.
C3_ScannerMissingExitsBeforeFixture ==
  (pc = "exited" /\ exc.via = "which_git_secrets") =>
    /\ exitStatus # 0
    /\ ~Attempted("mkdtemp")
    /\ run \notin tmpdirs

\* C4: on every path through the test body, a change back to the saved
\* directory is attempted after trigger_hook has run.
C4_CwdRestoreAttempted ==
  (hookReturned /\ BodyOver) =>
    \E i, j \in 1..Len(calls) :
      i < j /\ calls[i].op = "git commit" /\ calls[j].op = "chdir saved_path"

\* C5: every run that created a temporary directory attempts its removal,
\* whether the assertion passed or failed or setUp or the body raised.
C5_FixtureAlwaysReleased ==
  (pc = "exited" /\ Attempted("mkdtemp")) => Attempted("rmtree")

\* C6: when setup is incomplete (git init exits non-zero, or staging fails,
\* or the change into the fixture directory fails) the scenario is reported
\* as failed.
C6_IncompleteSetupFails ==
  (pc = "exited" /\ hookReturned /\
     (\/ \E rc \in ExitCodes \ {0} : Has("git init", rc)
      \/ \E rc \in ExitCodes \ {0} : Has("git add", rc)
      \/ Has("chdir repo_path", 1)))
    => (result # "ok" /\ exitStatus # 0)

\* C7: the exit status is 0 only when the scenario ran and passed; it is
\* non-zero when the scenario failed, the platform is too old, the scanner is
\* missing or the argument parser rejected the command line.  (The printing
\* of help, which the claim does not list, is left aside.)
C7_ExitZeroOnlyWhenPassed ==
  (pc = "exited" /\ ~HelpPrinted) =>
    ((exitStatus = 0) <=> (result = "ok"))

\* C8: after any sequence of happy-path runs no fixture directory exists; a
\* run whose removal fails leaves only its own directory behind, logs an
\* error for it, and is reported exactly as the assertion decided.
C8_NoLeakOnHappyPath ==
  /\ (pc = "exited" /\ happySoFar) => tmpdirs = {}
  /\ tmpdirs \subseteq 1..run
  /\ (Reported /\ Has("rmtree", 1)) =>
       /\ Logged("ERROR", "Cannot remove directory")
       /\ Logged("ERROR",
                 "Error: Cannot remove the directory, you will need to do this manually")
       /\ ((result = "ok") <=> (hookReturned /\ ~marker))
       /\ exc.via # "remove_repo"

\* C8 witness: two happy-path runs in sequence have ended and the disk holds
\* no fixture directory.
C8_Witness ==
  /\ pc = "exited" /\ run = 2 /\ happySoFar
  /\ Has("mkdtemp", 0) /\ Has("rmtree", 0) /\ result = "ok"
  /\ tmpdirs = {}

\* C9: no failure inside create_repo or remove_repo leaves the method as an
\* exception.
C9_FixtureManagerNeverRaises ==
  exc.via \notin {"create_repo", "remove_repo"}

\* C10: a generated secret key has exactly 40 characters from A-Z a-z 0-9 / + =
\* and a generated access key is AKIA followed by 16 characters from A-Z 0-9.
C10_KeysHaveShape ==
  LET upper == {"A","B","C","D","E","F","G","H","I","J","K","L","M",
                "N","O","P","Q","R","S","T","U","V","W","X","Y","Z"}
      lower == {"a","b","c","d","e","f","g","h","i","j","k","l","m",
                "n","o","p","q","r","s","t","u","v","w","x","y","z"}
      digit == {"0","1","2","3","4","5","6","7","8","9"}
  IN  /\ keyShape = "secret" =>
           /\ Len(key) = 40
           /\ \A i \in 1..Len(key) : key[i] \in upper \cup lower \cup digit \cup {"/", "+", "="}
      /\ keyShape = "access" =>
           /\ Len(key) = 20
           /\ SubSeq(key, 1, 4) = <<"A", "K", "I", "A">>
           /\ \A i \in 5..Len(key) : key[i] \in upper \cup digit

\* C10 witness: a generated secret key that holds the last character of its
\* alphabet and a lower-case letter.
C10_Witness ==
  /\ keyShape = "secret"
  /\ Len(key) = 40
  /\ \E i \in 1..Len(key) : key[i] = "="
  /\ \E i \in 1..Len(key) : key[i] = "z"

====
